---- MODULE Spec2Model ----
(***************************************************************************)
(* Model of the video-utils command line tools:                            *)
(*   concatenate_videos.py  (find_mp4_files, check_ffmpeg,                 *)
(*                           create_concat_file, concatenate_videos, main) *)
(*   overlay_image.py       (check_ffmpeg, validate_files,                 *)
(*                           get_position_filter, overlay_image_on_video,  *)
(*                           parse_time_to_seconds, main)                  *)
(*                                                                         *)
(* Python strings that the code takes apart (time strings, file names) are *)
(* sequences of one-character strings; strings the code only builds (the   *)
(* filter graph, the position expression) are TLA+ strings built with \o.  *)
(* A float whose value is a whole number n is the integer n; its Python    *)
(* repr is FloatRepr(n).  The opacity is held in tenths.                   *)
(***************************************************************************)
EXTENDS Integers, Sequences, FiniteSets, TLC

VARIABLES
    tool,          \* which script runs: "concat", "overlay", or "none" in the function harnesses
    pc,            \* position of the run inside main()
    args,          \* the argparse namespace, NoArgs before parse_args() returned
    ffmpeg,        \* what the run has learnt from check_ffmpeg(): "unknown", "present", "absent"
    log,           \* the steps of the run that have happened, in order
    procs,         \* the external processes started so far, in order
    exitCode,      \* process exit code, NoExit while running
    folder,        \* concat: the file system object args.folder names
    mp4_files,     \* concat: what find_mp4_files returned or raised
    listFile,      \* concat: the temporary directory and the concat list file in it
    raised,        \* the exception in flight or last caught, "none" otherwise
    graph,         \* overlay: what overlay_image_on_video built (filter_parts, overlay_options, ...)
    call           \* function harnesses: the pending or returned call

vars == <<tool, pc, args, ffmpeg, log, procs, exitCode, folder, mp4_files,
          listFile, raised, graph, call>>

toolVars == <<tool, pc, args, ffmpeg, log, procs, exitCode, folder, mp4_files,
              listFile, raised, graph>>

----------------------------------------------------------------------------
(* Bounds of the model. *)

\* most colon-delimited components of a time string in the parse harness
MaxParts == 4
\* largest absolute pixel offset in the position harness
MaxOffset == 3
\* most directory entries of the folder given to the concat tool
MaxEntries == 3

----------------------------------------------------------------------------
(* Strings as character sequences. *)

Digits == {"0", "1", "2", "3", "4", "5", "6", "7", "8", "9"}

DigitVal(c) ==
    CASE c = "0" -> 0 [] c = "1" -> 1 [] c = "2" -> 2 [] c = "3" -> 3
      [] c = "4" -> 4 [] c = "5" -> 5 [] c = "6" -> 6 [] c = "7" -> 7
      [] c = "8" -> 8 [] c = "9" -> 9

\* str.lower() on one character of the model's alphabet
LowerChar(c) ==
    CASE c = "A" -> "a" [] c = "B" -> "b" [] c = "M" -> "m" [] c = "P" -> "p"
      [] c = "T" -> "t" [] c = "X" -> "x"
      [] OTHER -> c

\* str.lower()
Lower(s) == [i \in 1..Len(s) |-> LowerChar(s[i])]

\* code point order of the model's alphabet (Python compares strings by code point)
Ord(c) ==
    CASE c = "'" -> 39 [] c = "." -> 46 [] c = "/" -> 47
      [] c \in Digits -> 48 + DigitVal(c)
      [] c = ":" -> 58
      [] c = "A" -> 65 [] c = "B" -> 66 [] c = "M" -> 77 [] c = "P" -> 80
      [] c = "T" -> 84 [] c = "X" -> 88
      [] c = "\\" -> 92
      [] c = "a" -> 97 [] c = "b" -> 98 [] c = "c" -> 99 [] c = "m" -> 109
      [] c = "p" -> 112 [] c = "t" -> 116 [] c = "x" -> 120
      [] OTHER -> 127

\* the character sequence as a TLA+ string
RECURSIVE CharsToStr(_)
CharsToStr(s) == IF s = <<>> THEN "" ELSE Head(s) \o CharsToStr(Tail(s))

\* str.split(':'): the maximal colon-free runs, in order; always at least one
RECURSIVE SplitColon(_)
SplitColon(s) ==
    IF \A i \in 1..Len(s) : s[i] # ":"
    THEN <<s>>
    ELSE LET k == CHOOSE i \in 1..Len(s) :
                      s[i] = ":" /\ \A j \in 1..(i - 1) : s[j] # ":"
         IN  <<SubSeq(s, 1, k - 1)>> \o SplitColon(SubSeq(s, k + 1, Len(s)))

----------------------------------------------------------------------------
(* float() and the repr of a float. *)

\* float(s) raises ValueError unless s is a number literal; over the model's
\* alphabet the number literals are the non-empty digit strings
FloatOk(s) == Len(s) > 0 /\ \A i \in 1..Len(s) : s[i] \in Digits

\* the value float(s) returns on a digit string
RECURSIVE FloatVal(_)
FloatVal(s) ==
    IF s = <<>> THEN 0
    ELSE 10 * FloatVal(SubSeq(s, 1, Len(s) - 1)) + DigitVal(s[Len(s)])

\* repr of a whole-number float: 10.0, 40.0
FloatRepr(n) == ToString(n) \o ".0"

----------------------------------------------------------------------------
(* overlay_image.py: parse_time_to_seconds *)

Returned(v) == [ok |-> TRUE, val |-> v, exc |-> "none"]
Raised(e) == [ok |-> FALSE, val |-> 0, exc |-> e]

\* variant: the weights 3600 and 60 applied to the wrong components
parse_time_to_seconds_swapped(time_str) ==
    LET parts == SplitColon(time_str)
    IN  IF Len(parts) = 3
        THEN IF FloatOk(parts[1]) /\ FloatOk(parts[2]) /\ FloatOk(parts[3])
             THEN Returned(FloatVal(parts[1]) * 60 + FloatVal(parts[2]) * 3600
                           + FloatVal(parts[3]))
             ELSE Raised("ValueError")
        ELSE IF Len(parts) = 2
        THEN IF FloatOk(parts[1]) /\ FloatOk(parts[2])
             THEN Returned(FloatVal(parts[1]) + FloatVal(parts[2]) * 60)
             ELSE Raised("ValueError")
        ELSE IF FloatOk(parts[1])
             THEN Returned(FloatVal(parts[1]))
             ELSE Raised("ValueError")

parse_time_to_seconds(time_str) ==
    LET parts == SplitColon(time_str)
    IN  IF Len(parts) = 3
        THEN IF FloatOk(parts[1]) /\ FloatOk(parts[2]) /\ FloatOk(parts[3])
             THEN Returned(FloatVal(parts[1]) * 3600 + FloatVal(parts[2]) * 60
                           + FloatVal(parts[3]))
             ELSE Raised("ValueError")
        ELSE IF Len(parts) = 2
        THEN IF FloatOk(parts[1]) /\ FloatOk(parts[2])
             THEN Returned(FloatVal(parts[1]) * 60 + FloatVal(parts[2]))
             ELSE Raised("ValueError")
        ELSE IF FloatOk(parts[1])
             THEN Returned(FloatVal(parts[1]))
             ELSE Raised("ValueError")

----------------------------------------------------------------------------
(* overlay_image.py: get_position_filter *)

\* the --position choices of the parser
PositionChoices ==
    {"top-left", "top-right", "bottom-left", "bottom-right", "center", "custom"}

\* the f-string rendering of an int
IntStr(n) == ToString(n)

position_map(offset_x, offset_y) ==
    [p \in PositionChoices |->
        CASE p = "top-left" -> IntStr(offset_x) \o ":" \o IntStr(offset_y)
          [] p = "top-right" ->
                "main_w-overlay_w-" \o IntStr(offset_x) \o ":" \o IntStr(offset_y)
          [] p = "bottom-left" ->
                IntStr(offset_x) \o ":main_h-overlay_h-" \o IntStr(offset_y)
          [] p = "bottom-right" ->
                "main_w-overlay_w-" \o IntStr(offset_x) \o ":main_h-overlay_h-"
                \o IntStr(offset_y)
          [] p = "center" -> "(main_w-overlay_w)/2:(main_h-overlay_h)/2"
          [] p = "custom" -> IntStr(offset_x) \o ":" \o IntStr(offset_y)]

\* variant: the .get default taken from the top-left entry
get_position_filter_default_top_left(position, offset_x, offset_y) ==
    LET m == position_map(offset_x, offset_y)
    IN  IF position \in DOMAIN m THEN m[position] ELSE m["top-left"]

get_position_filter(position, offset_x, offset_y) ==
    LET m == position_map(offset_x, offset_y)
    IN  IF position \in DOMAIN m THEN m[position] ELSE m["top-right"]

----------------------------------------------------------------------------
(* Optional strings (None or a str) and pathlib helpers. *)

None == [given |-> FALSE, text |-> <<>>]
Some(t) == [given |-> TRUE, text |-> t]

\* Python truthiness of an Optional[str]: None and "" are false
Truthy(o) == o.given /\ o.text # <<>>

\* PurePath.suffix of a file name: from the last dot on, unless that dot is
\* the first or the last character of the name
PathSuffix(name) ==
    LET dots == {i \in 1..Len(name) : name[i] = "."}
    IN  IF dots = {} THEN <<>>
        ELSE LET i == CHOOSE d \in dots : \A e \in dots : e <= d
             IN  IF 1 < i /\ i < Len(name) THEN SubSeq(name, i, Len(name))
                 ELSE <<>>

\* PurePath.stem
PathStem(name) == SubSeq(name, 1, Len(name) - Len(PathSuffix(name)))

----------------------------------------------------------------------------
(* overlay_image.py: validate_files *)

video_extensions ==
    {<<".", "m", "p", "4">>, <<".", "a", "v", "i">>, <<".", "m", "o", "v">>,
     <<".", "m", "k", "v">>, <<".", "w", "e", "b", "m">>, <<".", "f", "l", "v">>,
     <<".", "w", "m", "v">>, <<".", "m", "4", "v">>}

image_extensions ==
    {<<".", "p", "n", "g">>, <<".", "j", "p", "g">>, <<".", "j", "p", "e", "g">>,
     <<".", "g", "i", "f">>, <<".", "b", "m", "p">>, <<".", "t", "i", "f", "f">>,
     <<".", "w", "e", "b", "p">>}

\* video and image are [name, exists]
validate_files(video, image) ==
    IF ~video.exists THEN Raised("FileNotFoundError")
    ELSE IF ~image.exists THEN Raised("FileNotFoundError")
    ELSE IF Lower(PathSuffix(video.name)) \notin video_extensions
    THEN Raised("ValueError")
    ELSE IF Lower(PathSuffix(image.name)) \notin image_extensions
    THEN Raised("ValueError")
    ELSE Returned(<<video.name, image.name>>)

----------------------------------------------------------------------------
(* overlay_image.py: overlay_image_on_video, the filter graph (lines 130-188) *)

\* repr of the float n/100, n a natural number: 0.5, 0.25, 1.0
PercentRepr(n) ==
    LET w == n \div 100
        f == n % 100
    IN  IF f % 10 = 0 THEN ToString(w) \o "." \o ToString(f \div 10)
        ELSE ToString(w) \o "." \o ToString(f \div 10) \o ToString(f % 10)

\* repr of the opacity, held in tenths: 0.7, 0.0, 1.5, -0.5
OpacityRepr(t) ==
    IF t < 0 THEN "-" \o ToString((-t) \div 10) \o "." \o ToString((-t) % 10)
    ELSE ToString(t \div 10) \o "." \o ToString(t % 10)

\* str.endswith('%')
EndsWithPercent(s) == Len(s) > 0 /\ s[Len(s)] = "%"

\* lines 134-145: the scale filter, or the ValueError of float()
scale_filter(scale) ==
    IF EndsWithPercent(scale)
    THEN LET num == SubSeq(scale, 1, Len(scale) - 1)
         IN  IF FloatOk(num)
             THEN Returned("scale=iw*" \o PercentRepr(FloatVal(num)) \o ":ih*"
                           \o PercentRepr(FloatVal(num)))
             ELSE Raised("ValueError")
    ELSE Returned("scale=" \o CharsToStr(scale))

\* join of a sequence of TLA+ strings
RECURSIVE JoinStr(_, _)
JoinStr(sep, ss) ==
    IF ss = <<>> THEN ""
    ELSE IF Len(ss) = 1 THEN ss[1]
    ELSE ss[1] \o sep \o JoinStr(sep, Tail(ss))

\* lines 159-167: the enable clauses
overlay_options(start_time, duration) ==
    LET st == parse_time_to_seconds(start_time.text)
        du == parse_time_to_seconds(duration.text)
        gte == IF Truthy(start_time) /\ st.ok
               THEN <<"enable='gte(t," \o FloatRepr(st.val) \o ")'">>
               ELSE <<>>
        between == IF Truthy(duration) /\ Truthy(start_time) /\ st.ok /\ du.ok
                   THEN <<"enable='between(t," \o FloatRepr(st.val) \o ","
                          \o FloatRepr(st.val + du.val) \o ")'">>
                   ELSE <<>>
    IN  gte \o between

\* what the time parsing of lines 161-167 raises, "none" if nothing
\* variant: the duration parsed whenever it is given
overlay_options_raise_duration_alone(start_time, duration) ==
    IF Truthy(start_time) /\ ~parse_time_to_seconds(start_time.text).ok
    THEN "ValueError"
    ELSE IF Truthy(duration) /\ ~parse_time_to_seconds(duration.text).ok
    THEN "ValueError"
    ELSE "none"

overlay_options_raise(start_time, duration) ==
    IF Truthy(start_time) /\ ~parse_time_to_seconds(start_time.text).ok
    THEN "ValueError"
    ELSE IF Truthy(duration) /\ Truthy(start_time)
            /\ ~parse_time_to_seconds(duration.text).ok
    THEN "ValueError"
    ELSE "none"

\* lines 130-188: filter_parts, overlay_options, filter_complex and cmd, or
\* the exception that leaves overlay_image_on_video before the try block
\* variant: the opacity segment reads [scaled] whether or not it was emitted
build_filter_graph_stale_tag(a, output_path) ==
    LET sc == IF Truthy(a.scale) THEN scale_filter(a.scale.text) ELSE Returned("")
        scaleParts == IF Truthy(a.scale) /\ sc.ok
                      THEN <<"[1:v]" \o sc.val \o "[scaled]">>
                      ELSE <<>>
        opacityParts ==
            IF a.opacity < 10
            THEN <<"[scaled]format=rgba,colorchannelmixer=aa="
                   \o OpacityRepr(a.opacity) \o "[transparent]">>
            ELSE <<>>
        overlay_input == IF a.opacity < 10 THEN "[transparent]"
                         ELSE IF Truthy(a.scale) THEN "[scaled]"
                         ELSE "[1:v]"
        position_filter == get_position_filter(a.position, a.offset_x, a.offset_y)
        opts == overlay_options(a.start_time, a.duration)
        overlay_filter ==
            "[0:v]" \o overlay_input \o "overlay=" \o position_filter
            \o (IF opts # <<>> THEN ":" \o JoinStr(":", opts) ELSE "")
        filter_parts == scaleParts \o opacityParts \o <<overlay_filter>>
    IN  IF ~sc.ok THEN Raised(sc.exc)
        ELSE IF overlay_options_raise(a.start_time, a.duration) # "none"
        THEN Raised(overlay_options_raise(a.start_time, a.duration))
        ELSE Returned([built |-> TRUE,
                       filter_parts |-> filter_parts,
                       overlay_options |-> opts,
                       overlay_input |-> overlay_input,
                       filter_complex |-> JoinStr(";", filter_parts),
                       cmd |-> <<"ffmpeg", "-i", CharsToStr(a.video),
                                 "-i", CharsToStr(a.image),
                                 "-filter_complex", JoinStr(";", filter_parts),
                                 "-c:a", "copy", "-y", output_path>>])

build_filter_graph(a, output_path) ==
    LET sc == IF Truthy(a.scale) THEN scale_filter(a.scale.text) ELSE Returned("")
        scaleParts == IF Truthy(a.scale) /\ sc.ok
                      THEN <<"[1:v]" \o sc.val \o "[scaled]">>
                      ELSE <<>>
        opacityParts ==
            IF a.opacity < 10
            THEN IF Truthy(a.scale)
                 THEN <<"[scaled]format=rgba,colorchannelmixer=aa="
                        \o OpacityRepr(a.opacity) \o "[transparent]">>
                 ELSE <<"[1:v]format=rgba,colorchannelmixer=aa="
                        \o OpacityRepr(a.opacity) \o "[transparent]">>
            ELSE <<>>
        overlay_input == IF a.opacity < 10 THEN "[transparent]"
                         ELSE IF Truthy(a.scale) THEN "[scaled]"
                         ELSE "[1:v]"
        position_filter == get_position_filter(a.position, a.offset_x, a.offset_y)
        opts == overlay_options(a.start_time, a.duration)
        overlay_filter ==
            "[0:v]" \o overlay_input \o "overlay=" \o position_filter
            \o (IF opts # <<>> THEN ":" \o JoinStr(":", opts) ELSE "")
        filter_parts == scaleParts \o opacityParts \o <<overlay_filter>>
    IN  IF ~sc.ok THEN Raised(sc.exc)
        ELSE IF overlay_options_raise(a.start_time, a.duration) # "none"
        THEN Raised(overlay_options_raise(a.start_time, a.duration))
        ELSE Returned([built |-> TRUE,
                       filter_parts |-> filter_parts,
                       overlay_options |-> opts,
                       overlay_input |-> overlay_input,
                       filter_complex |-> JoinStr(";", filter_parts),
                       cmd |-> <<"ffmpeg", "-i", CharsToStr(a.video),
                                 "-i", CharsToStr(a.image),
                                 "-filter_complex", JoinStr(";", filter_parts),
                                 "-c:a", "copy", "-y", output_path>>])

----------------------------------------------------------------------------
(* concatenate_videos.py: find_mp4_files *)

\* lexicographic order of two character sequences, by code point
RECURSIVE SeqLess(_, _)
SeqLess(a, b) ==
    IF b = <<>> THEN FALSE
    ELSE IF a = <<>> THEN TRUE
    ELSE IF Ord(Head(a)) # Ord(Head(b)) THEN Ord(Head(a)) < Ord(Head(b))
    ELSE SeqLess(Tail(a), Tail(b))

\* key(a) < key(b) for the sort key of the method
\* variant: the names compared without lower()
KeyLess_case_sensitive(sort_method, a, b) ==
    CASE sort_method = "alphabetical" -> SeqLess(a.name, b.name)
      [] sort_method = "date_created" -> a.ctime < b.ctime
      [] sort_method = "date_modified" -> a.mtime < b.mtime

KeyLess(sort_method, a, b) ==
    CASE sort_method = "alphabetical" -> SeqLess(Lower(a.name), Lower(b.name))
      [] sort_method = "date_created" -> a.ctime < b.ctime
      [] sort_method = "date_modified" -> a.mtime < b.mtime

\* list.sort(key=...) is stable: x goes before the first element whose key
\* is greater than its own
RECURSIVE InsertByKey(_, _, _)
InsertByKey(sort_method, sorted, x) ==
    IF sorted = <<>> THEN <<x>>
    ELSE IF KeyLess(sort_method, x, Head(sorted)) THEN <<x>> \o sorted
    ELSE <<Head(sorted)>> \o InsertByKey(sort_method, Tail(sorted), x)

RECURSIVE SortByKey(_, _)
SortByKey(sort_method, files) ==
    IF files = <<>> THEN <<>>
    ELSE InsertByKey(sort_method,
                     SortByKey(sort_method, SubSeq(files, 1, Len(files) - 1)),
                     files[Len(files)])

SortChoices == {"alphabetical", "date_created", "date_modified"}

\* line 40: file_path.is_file() and file_path.suffix.lower() == '.mp4'
\* variant: without the is_file() test
IsMp4File_any_kind(e) == Lower(PathSuffix(e.name)) = <<".", "m", "p", "4">>

IsMp4File(e) == e.kind = "file" /\ Lower(PathSuffix(e.name)) = <<".", "m", "p", "4">>

find_mp4_files(f, sort_method) ==
    IF f.kind = "missing" THEN Raised("FileNotFoundError")
    ELSE IF f.kind # "dir" THEN Raised("NotADirectoryError")
    ELSE LET found == SelectSeq(f.entries, IsMp4File)
         IN  IF found = <<>> THEN Raised("ValueError")
             ELSE IF sort_method \in SortChoices
             THEN Returned(SortByKey(sort_method, found))
             ELSE Raised("ValueError")

----------------------------------------------------------------------------
(* concatenate_videos.py: create_concat_file *)

\* str.replace of one character by a string of characters
RECURSIVE ReplaceChar(_, _, _)
ReplaceChar(s, c, by) ==
    IF s = <<>> THEN <<>>
    ELSE (IF Head(s) = c THEN by ELSE <<Head(s)>>) \o ReplaceChar(Tail(s), c, by)

\* str(mp4_file.resolve()): the folder's absolute path, the platform's
\* separator and the file name
Resolve(f, e) == f.path \o <<f.sep>> \o e.name

\* lines 91-94: the line written for one file
\* variant: single quotes written as they are
concat_line_quotes_unescaped(f, e) ==
    LET abs_path == ReplaceChar(Resolve(f, e), "\\", <<"/">>)
    IN  "file '" \o CharsToStr(abs_path) \o "'\n"

concat_line(f, e) ==
    LET abs_path == ReplaceChar(Resolve(f, e), "\\", <<"/">>)
        escaped_path == ReplaceChar(abs_path, "'", <<"\\", "'">>)
    IN  "file '" \o CharsToStr(escaped_path) \o "'\n"

\* the lines of concat_list.txt after the loop of lines 89-94
create_concat_file(files, f) == [i \in 1..Len(files) |-> concat_line(f, files[i])]

----------------------------------------------------------------------------
(* Values the variables hold while they are not in use. *)

NoArgs == [parsed |-> FALSE]
NoExit == -1
NoGraph == [built |-> FALSE]
NoFolder == [kind |-> "unset"]
NoCall == [fn |-> "none"]
NoResult == Raised("none")
\* tempdir: the TemporaryDirectory exists; state of concat_list.txt in it
NoListFile == [tempdir |-> FALSE, state |-> "absent", lines |-> <<>>]

ToolIdle ==
    /\ tool = "none"
    /\ pc = "idle"
    /\ args = NoArgs
    /\ ffmpeg = "unknown"
    /\ log = <<>>
    /\ procs = <<>>
    /\ exitCode = NoExit
    /\ folder = NoFolder
    /\ mp4_files = NoResult
    /\ listFile = NoListFile
    /\ raised = "none"
    /\ graph = NoGraph

----------------------------------------------------------------------------
(* The command lines and the file systems the tools are run on. *)

T_00_00_10 == <<"0", "0", ":", "0", "0", ":", "1", "0">>
T_00_00_30 == <<"0", "0", ":", "0", "0", ":", "3", "0">>
T_1_2_3_4 == <<"1", ":", "2", ":", "3", ":", "4">>

StartTimes == {None, Some(<<>>), Some(T_00_00_10), Some(<<"x">>), Some(T_1_2_3_4)}
Durations == {None, Some(T_00_00_30), Some(<<"x">>)}
Scales == {None, Some(<<"5", "0", "%">>), Some(<<"1", "0", "0", ":", "1", "0", "0">>),
           Some(<<"x", "%">>)}
\* --opacity in tenths: -0.5, 0.0, 0.7, 1.0, 1.5
Opacities == {-5, 0, 7, 10, 15}
RunOffsets == {<<10, 10>>, <<0, -3>>}
VideoNames == {<<"v", ".", "M", "P", "4">>, <<"v", ".", "t", "x", "t">>}
ImageNames == {<<"i", ".", "p", "n", "g">>, <<"i", ".", "t", "x", "t">>}
Outputs == {None, Some(<<"o", ".", "m", "p", "4">>)}

\* the namespaces parse_args() of overlay_image.py can return (lines 252-311)
OverlayArgs ==
    {[parsed |-> TRUE, video |-> v, image |-> i, output |-> o, position |-> p,
      scale |-> sc, opacity |-> op, offset_x |-> off[1], offset_y |-> off[2],
      start_time |-> st, duration |-> du] :
        v \in VideoNames, i \in ImageNames, o \in Outputs, p \in PositionChoices,
        sc \in Scales, op \in Opacities, off \in RunOffsets, st \in StartTimes,
        du \in Durations}

\* the namespaces parse_args() of concatenate_videos.py can return (lines 163-181)
ConcatArgs ==
    {[parsed |-> TRUE, folder |-> <<"d">>, output |-> o, sort |-> s] :
        o \in Outputs, s \in SortChoices}

\* directory entries: name, kind, st_ctime, st_mtime
EntryPool ==
    {[name |-> <<"b", ".", "m", "p", "4">>, kind |-> "file", ctime |-> 2, mtime |-> 1],
     [name |-> <<"a", ".", "M", "P", "4">>, kind |-> "file", ctime |-> 1, mtime |-> 2],
     [name |-> <<"B", ".", "m", "p", "4">>, kind |-> "file", ctime |-> 2, mtime |-> 3],
     [name |-> <<"c", ".", "t", "x", "t">>, kind |-> "file", ctime |-> 3, mtime |-> 3],
     [name |-> <<"d", ".", "m", "p", "4">>, kind |-> "dir", ctime |-> 1, mtime |-> 1],
     [name |-> <<".", "m", "p", "4">>, kind |-> "file", ctime |-> 4, mtime |-> 4],
     [name |-> <<"a", ".", "m", "p", "4">>, kind |-> "file", ctime |-> 3, mtime |-> 2],
     [name |-> <<"c", ".", "m", "p", "4">>, kind |-> "file", ctime |-> 5, mtime |-> 1],
     [name |-> <<"x", "'", ".", "m", "p", "4">>, kind |-> "file", ctime |-> 6, mtime |-> 6]}

\* iterdir() yields the entries in any order, each once
Listings ==
    UNION {{l \in [1..n -> EntryPool] : \A i, j \in 1..n : l[i] = l[j] => i = j} :
           n \in 0..MaxEntries}

\* absolute path of the folder and the platform's separator
FolderPaths == {[path |-> <<"/", "d">>, sep |-> "/"],
                [path |-> <<"C", ":", "\\", "d">>, sep |-> "\\"]}

Folders ==
    {[kind |-> "missing", path |-> <<>>, sep |-> "/", entries |-> <<>>],
     [kind |-> "file", path |-> <<"/", "d">>, sep |-> "/", entries |-> <<>>]}
    \cup {[kind |-> "dir", path |-> fp.path, sep |-> fp.sep, entries |-> l] :
             fp \in FolderPaths, l \in Listings}

----------------------------------------------------------------------------
(* main() of both tools. *)

\* the order of the statements of main(): overlay_image.py lines 311-353,
\* concatenate_videos.py lines 181-207
\* variant: check_ffmpeg called after the inputs were validated or discovered
main_order_probe_after_inputs(t) ==
    IF t = "overlay"
    THEN <<"parse_args", "check_opacity", "validate_files", "check_ffmpeg",
           "makedirs", "overlay_image_on_video">>
    ELSE <<"parse_args", "find_mp4_files", "check_ffmpeg", "makedirs",
           "concatenate_videos">>

main_order(t) ==
    IF t = "overlay"
    THEN <<"parse_args", "check_opacity", "check_ffmpeg", "validate_files",
           "makedirs", "overlay_image_on_video">>
    ELSE <<"parse_args", "check_ffmpeg", "find_mp4_files", "makedirs",
           "concatenate_videos">>

\* the statement of main() that follows step
After(step) ==
    LET o == main_order(tool)
        i == CHOOSE k \in 1..Len(o) : o[k] = step
    IN  o[i + 1]

\* sys.exit(code)
Exit(code) == pc' = "exit" /\ exitCode' = code

\* except Exception as e: print(...); sys.exit(1)
\* (overlay_image.py lines 360-362, concatenate_videos.py lines 214-216)
main_except(e) == raised' = e /\ Exit(1)

Init ==
    /\ tool \in {"concat", "overlay"}
    /\ pc = "parse_args"
    /\ args = NoArgs
    /\ ffmpeg = "unknown"
    /\ log = <<>>
    /\ procs = <<>>
    /\ exitCode = NoExit
    /\ folder = NoFolder
    /\ mp4_files = NoResult
    /\ listFile = NoListFile
    /\ raised = "none"
    /\ graph = NoGraph
    /\ call = NoCall

\* parser.parse_args() accepts the command line
ParseArgsOk ==
    /\ pc = "parse_args"
    /\ args' \in (IF tool = "overlay" THEN OverlayArgs ELSE ConcatArgs)
    /\ pc' = After("parse_args")
    /\ log' = Append(log, "parse_args")
    /\ UNCHANGED <<tool, ffmpeg, procs, exitCode, folder, mp4_files, listFile,
                   raised, graph, call>>

\* parser.parse_args() rejects the command line (a missing positional, a
\* --position or --sort outside its choices, an --opacity that is no float):
\* argparse prints the usage and exits with status 2
ParseArgsUsageError ==
    /\ pc = "parse_args"
    /\ log' = Append(log, "parse_args")
    /\ Exit(2)
    /\ UNCHANGED <<tool, args, ffmpeg, procs, folder, mp4_files, listFile,
                   raised, graph, call>>

\* parser.parse_args() finds -h/--help: argparse prints the help and exits
\* with status 0
ParseArgsHelp ==
    /\ pc = "parse_args"
    /\ log' = Append(log, "parse_args")
    /\ Exit(0)
    /\ UNCHANGED <<tool, args, ffmpeg, procs, folder, mp4_files, listFile,
                   raised, graph, call>>

\* overlay_image.py line 314: 0.0 <= args.opacity <= 1.0, opacity in tenths
\* variant: only the upper bound tested
OpacityInRange_no_lower_bound(o) == o <= 10

OpacityInRange(o) == 0 <= o /\ o <= 10

\* overlay_image.py lines 313-316
CheckOpacity ==
    /\ pc = "check_opacity"
    /\ log' = Append(log, "check_opacity")
    /\ IF OpacityInRange(args.opacity)
       THEN pc' = After("check_opacity") /\ UNCHANGED exitCode
       ELSE Exit(1)
    /\ UNCHANGED <<tool, args, ffmpeg, procs, folder, mp4_files, listFile,
                   raised, graph, call>>

ProbeCmd == <<"ffmpeg", "-version">>

\* check_ffmpeg(): ffmpeg -version runs and returns status 0
CheckFfmpegPresent ==
    /\ pc = "check_ffmpeg"
    /\ log' = Append(log, "check_ffmpeg")
    /\ procs' = Append(procs, [what |-> "probe", cmd |-> ProbeCmd, rc |-> 0])
    /\ ffmpeg' = "present"
    /\ pc' = After("check_ffmpeg")
    /\ UNCHANGED <<tool, args, exitCode, folder, mp4_files, listFile, raised,
                   graph, call>>

\* check_ffmpeg(): ffmpeg -version runs and returns a nonzero status
\* (CalledProcessError); main prints the diagnostic and exits with 1
CheckFfmpegFails ==
    /\ pc = "check_ffmpeg"
    /\ log' = Append(log, "check_ffmpeg")
    /\ procs' = Append(procs, [what |-> "probe", cmd |-> ProbeCmd, rc |-> 1])
    /\ ffmpeg' = "absent"
    /\ Exit(1)
    /\ UNCHANGED <<tool, args, folder, mp4_files, listFile, raised, graph, call>>

\* check_ffmpeg(): no ffmpeg on the PATH (FileNotFoundError), no process is
\* started; main prints the diagnostic and exits with 1
CheckFfmpegNotFound ==
    /\ pc = "check_ffmpeg"
    /\ log' = Append(log, "check_ffmpeg")
    /\ ffmpeg' = "absent"
    /\ Exit(1)
    /\ UNCHANGED <<tool, args, procs, folder, mp4_files, listFile, raised,
                   graph, call>>

\* check_ffmpeg(): subprocess.run raises another OSError (ffmpeg is not
\* executable); check_ffmpeg does not catch it and the call is outside the
\* try block of main, so the interpreter ends with a traceback and status 1
CheckFfmpegOSError ==
    /\ pc = "check_ffmpeg"
    /\ log' = Append(log, "check_ffmpeg")
    /\ raised' = "PermissionError"
    /\ Exit(1)
    /\ UNCHANGED <<tool, args, ffmpeg, procs, folder, mp4_files, listFile,
                   graph, call>>

\* overlay_image.py line 326, the files found or not on the file system
ValidateFiles ==
    /\ pc = "validate_files"
    /\ log' = Append(log, "validate_files")
    /\ \E ve \in BOOLEAN, ie \in BOOLEAN :
          LET r == validate_files([name |-> args.video, exists |-> ve],
                                  [name |-> args.image, exists |-> ie])
          IN  IF r.ok
              THEN pc' = After("validate_files") /\ UNCHANGED <<exitCode, raised>>
              ELSE main_except(r.exc)
    /\ UNCHANGED <<tool, args, ffmpeg, procs, folder, mp4_files, listFile,
                   graph, call>>

\* concatenate_videos.py line 191, on the folder found on the file system
FindMp4Files ==
    /\ pc = "find_mp4_files"
    /\ log' = Append(log, "find_mp4_files")
    /\ \E f \in Folders :
          /\ folder' = f
          /\ mp4_files' = find_mp4_files(f, args.sort)
          /\ IF find_mp4_files(f, args.sort).ok
             THEN pc' = After("find_mp4_files") /\ UNCHANGED <<exitCode, raised>>
             ELSE main_except(find_mp4_files(f, args.sort).exc)
    /\ UNCHANGED <<tool, args, ffmpeg, procs, listFile, graph, call>>

\* os.makedirs(output_dir, exist_ok=True): overlay_image.py lines 328-339,
\* concatenate_videos.py lines 193-204
Makedirs ==
    /\ pc = "makedirs"
    /\ log' = Append(log, "makedirs")
    /\ \/ pc' = After("makedirs") /\ UNCHANGED <<exitCode, raised>>
       \/ main_except("OSError")
    /\ UNCHANGED <<tool, args, ffmpeg, procs, folder, mp4_files, listFile,
                   graph, call>>

----------------------------------------------------------------------------
(* overlay_image.py: overlay_image_on_video as called by main *)

\* os.path.abspath of args.output or of its default (lines 329-335)
OverlayOutputPath(a) ==
    IF a.output.given THEN "/cwd/" \o CharsToStr(a.output.text)
    ELSE "/cwd/output/" \o CharsToStr(PathStem(a.video)) \o "_overlay"
         \o CharsToStr(PathSuffix(a.video))

\* lines 125-191: the filter graph and the command; a ValueError of float()
\* leaves the function and is caught by main
OverlayBuild ==
    /\ pc = "overlay_image_on_video"
    /\ log' = Append(log, "build_filter")
    /\ LET r == build_filter_graph(args, OverlayOutputPath(args))
       IN  IF r.ok
           THEN graph' = r.val /\ pc' = "overlay_run"
                /\ UNCHANGED <<exitCode, raised>>
           ELSE main_except(r.exc) /\ UNCHANGED graph
    /\ UNCHANGED <<tool, args, ffmpeg, procs, folder, mp4_files, listFile, call>>

\* line 194: subprocess.run starts ffmpeg and waits for it
OverlayRunStart ==
    /\ pc = "overlay_run"
    /\ log' = Append(log, "invoke")
    /\ procs' = Append(procs, [what |-> "run", cmd |-> graph.cmd, rc |-> -1])
    /\ pc' = "overlay_running"
    /\ UNCHANGED <<tool, args, ffmpeg, exitCode, folder, mp4_files, listFile,
                   raised, graph, call>>

\* line 194 raises (the process cannot be launched); lines 204-206 return
\* False and main exits with 1 (line 358)
OverlayRunLaunchFail ==
    /\ pc = "overlay_run"
    /\ log' = Append(log, "invoke")
    /\ raised' = "OSError"
    /\ Exit(1)
    /\ UNCHANGED <<tool, args, ffmpeg, procs, folder, mp4_files, listFile,
                   graph, call>>

\* the last process ended with status rc
Finished(ps, rc) == [ps EXCEPT ![Len(ps)].rc = rc]

\* lines 196-202 and 355-358: ffmpeg ended; exit 0 on status zero, else 1
\* variant: a nonzero status starts ffmpeg once more
OverlayRunFinish_retry_once ==
    /\ pc = "overlay_running"
    /\ \E rc \in {0, 1} :
          /\ procs' = Finished(procs, rc)
          /\ IF rc # 0 /\ Len(procs) < 3
             THEN pc' = "overlay_run" /\ UNCHANGED exitCode
             ELSE Exit(IF rc = 0 THEN 0 ELSE 1)
    /\ UNCHANGED <<tool, args, ffmpeg, log, folder, mp4_files, listFile,
                   raised, graph, call>>

OverlayRunFinish ==
    /\ pc = "overlay_running"
    /\ \E rc \in {0, 1} :
          /\ procs' = Finished(procs, rc)
          /\ Exit(IF rc = 0 THEN 0 ELSE 1)
    /\ UNCHANGED <<tool, args, ffmpeg, log, folder, mp4_files, listFile,
                   raised, graph, call>>

----------------------------------------------------------------------------
(* concatenate_videos.py: concatenate_videos as called by main *)

ConcatOutputPath(a) ==
    IF a.output.given THEN "/cwd/" \o CharsToStr(a.output.text)
    ELSE "/cwd/output/" \o CharsToStr(a.folder) \o ".mp4"

ConcatCmd(a) ==
    <<"ffmpeg", "-f", "concat", "-safe", "0", "-i", "<temp_dir>/concat_list.txt",
      "-c", "copy", "-y", ConcatOutputPath(a)>>

\* line 116: tempfile.TemporaryDirectory() is entered; if it cannot be
\* created the OSError leaves concatenate_videos and is caught by main
ConcatTempDir ==
    /\ pc = "concatenate_videos"
    /\ log' = Append(log, "tempdir")
    /\ \/ /\ listFile' = [listFile EXCEPT !.tempdir = TRUE]
          /\ pc' = "concat_write"
          /\ UNCHANGED <<exitCode, raised>>
       \/ main_except("OSError") /\ UNCHANGED listFile
    /\ UNCHANGED <<tool, args, ffmpeg, procs, folder, mp4_files, graph, call>>

\* line 119, create_concat_file: the file is opened and one line per file is
\* written; open() may fail, and resolve() or write() may fail after k lines.
\* Lines 145-147 catch the exception and return False.
ConcatWriteList ==
    /\ pc = "concat_write"
    /\ log' = Append(log, "write_list")
    /\ LET lines == create_concat_file(mp4_files.val, folder)
       IN  \/ /\ listFile' = [listFile EXCEPT !.state = "written", !.lines = lines]
              /\ pc' = "concat_run"
              /\ UNCHANGED raised
           \/ /\ UNCHANGED listFile
              /\ raised' = "OSError"
              /\ pc' = "concat_cleanup"
           \/ \E k \in 0..(Len(lines) - 1) :
                 /\ listFile' = [listFile EXCEPT !.state = "partial",
                                                 !.lines = SubSeq(lines, 1, k)]
                 /\ raised' = "OSError"
                 /\ pc' = "concat_cleanup"
    /\ UNCHANGED <<tool, args, ffmpeg, procs, exitCode, folder, mp4_files,
                   graph, call>>

\* line 135: subprocess.run starts ffmpeg and waits for it
ConcatRunStart ==
    /\ pc = "concat_run"
    /\ log' = Append(log, "invoke")
    /\ procs' = Append(procs, [what |-> "run", cmd |-> ConcatCmd(args), rc |-> -1])
    /\ pc' = "concat_running"
    /\ UNCHANGED <<tool, args, ffmpeg, exitCode, folder, mp4_files, listFile,
                   raised, graph, call>>

\* line 135 raises (the process cannot be launched); lines 145-147
ConcatRunLaunchFail ==
    /\ pc = "concat_run"
    /\ log' = Append(log, "invoke")
    /\ raised' = "OSError"
    /\ pc' = "concat_cleanup"
    /\ UNCHANGED <<tool, args, ffmpeg, procs, exitCode, folder, mp4_files,
                   listFile, graph, call>>

\* lines 137-143: ffmpeg ended with status rc
ConcatRunFinish ==
    /\ pc = "concat_running"
    /\ \E rc \in {0, 1} : procs' = Finished(procs, rc)
    /\ pc' = "concat_cleanup"
    /\ UNCHANGED <<tool, args, ffmpeg, log, exitCode, folder, mp4_files,
                   listFile, raised, graph, call>>

\* the with block of line 116 is left, by return: TemporaryDirectory removes
\* the directory and the list file in it
\* variant: the directory removed only when no exception was caught
ConcatCleanup_skipped_on_exception ==
    /\ pc = "concat_cleanup"
    /\ listFile' = IF raised = "none" THEN NoListFile ELSE listFile
    /\ pc' = "concat_returned"
    /\ UNCHANGED <<tool, args, ffmpeg, log, procs, exitCode, folder, mp4_files,
                   raised, graph, call>>

ConcatCleanup ==
    /\ pc = "concat_cleanup"
    /\ listFile' = NoListFile
    /\ pc' = "concat_returned"
    /\ UNCHANGED <<tool, args, ffmpeg, log, procs, exitCode, folder, mp4_files,
                   raised, graph, call>>

\* what concatenate_videos returned: True iff ffmpeg ran and ended with 0
\* variant: True whenever ffmpeg was started
ConcatSuccess_ignores_status ==
    /\ procs # <<>>
    /\ procs[Len(procs)].what = "run"

ConcatSuccess ==
    /\ procs # <<>>
    /\ procs[Len(procs)].what = "run"
    /\ procs[Len(procs)].rc = 0

\* lines 209-212
ConcatExit ==
    /\ pc = "concat_returned"
    /\ Exit(IF ConcatSuccess THEN 0 ELSE 1)
    /\ UNCHANGED <<tool, args, ffmpeg, log, procs, folder, mp4_files, listFile,
                   raised, graph, call>>

Next ==
    \/ ParseArgsOk
    \/ ParseArgsUsageError
    \/ ParseArgsHelp
    \/ CheckOpacity
    \/ CheckFfmpegPresent
    \/ CheckFfmpegFails
    \/ CheckFfmpegNotFound
    \/ CheckFfmpegOSError
    \/ ValidateFiles
    \/ FindMp4Files
    \/ Makedirs
    \/ OverlayBuild
    \/ OverlayRunStart
    \/ OverlayRunLaunchFail
    \/ OverlayRunFinish
    \/ ConcatTempDir
    \/ ConcatWriteList
    \/ ConcatRunStart
    \/ ConcatRunLaunchFail
    \/ ConcatRunFinish
    \/ ConcatCleanup
    \/ ConcatExit

Spec == Init /\ [][Next]_vars

----------------------------------------------------------------------------
(* Harness of parse_time_to_seconds: the time string is written as the     *)
(* colon-joined text of up to MaxParts components, then parsed.            *)

DigitChar(d) ==
    CASE d = 0 -> "0" [] d = 1 -> "1" [] d = 2 -> "2" [] d = 3 -> "3"
      [] d = 4 -> "4" [] d = 5 -> "5" [] d = 6 -> "6" [] d = 7 -> "7"
      [] d = 8 -> "8" [] d = 9 -> "9"

\* a number below 100 written with two digits, as in 00:00:10
Pad2(n) == <<DigitChar(n \div 10), DigitChar(n % 10)>>

\* the numbers written into well-formed components
TimeNums == {1, 2, 3, 45}

\* num is the number the text was written from, -1 for text that is no number
TimeComponents ==
    {[text |-> Pad2(n), num |-> n] : n \in TimeNums}
    \cup {[text |-> <<"7">>, num |-> 7]}
    \cup {[text |-> <<>>, num |-> -1],
          [text |-> <<"x">>, num |-> -1],
          [text |-> <<"1", "x">>, num |-> -1]}

PartSeqs == UNION {[1..n -> TimeComponents] : n \in 1..MaxParts}

RECURSIVE JoinColon(_)
JoinColon(ps) ==
    IF Len(ps) = 1 THEN ps[1].text
    ELSE ps[1].text \o <<":">> \o JoinColon(Tail(ps))

InitTime ==
    /\ ToolIdle
    /\ \E ps \in PartSeqs :
          call = [fn |-> "parse_time_to_seconds", parts |-> ps,
                  time_str |-> JoinColon(ps), done |-> FALSE,
                  result |-> Raised("none")]

CallParseTime ==
    /\ call.fn = "parse_time_to_seconds"
    /\ ~call.done
    /\ call' = [call EXCEPT !.done = TRUE,
                            !.result = parse_time_to_seconds(call.time_str)]
    /\ UNCHANGED toolVars

NextTime == CallParseTime

SpecTime == InitTime /\ [][NextTime]_vars

----------------------------------------------------------------------------
(* Harness of get_position_filter. *)

\* strings that are none of the six presets
OtherPositions == {"", "middle", "TOP-RIGHT", "top_right"}

Offsets == (-MaxOffset..MaxOffset) \cup {10}

InitPos ==
    /\ ToolIdle
    /\ \E p \in PositionChoices \cup OtherPositions, ox \in Offsets, oy \in Offsets :
          call = [fn |-> "get_position_filter", position |-> p,
                  offset_x |-> ox, offset_y |-> oy, done |-> FALSE, result |-> ""]

CallPosition ==
    /\ call.fn = "get_position_filter"
    /\ ~call.done
    /\ call' = [call EXCEPT !.done = TRUE,
                            !.result = get_position_filter(call.position,
                                                           call.offset_x,
                                                           call.offset_y)]
    /\ UNCHANGED toolVars

NextPos == CallPosition

SpecPos == InitPos /\ [][NextPos]_vars

----------------------------------------------------------------------------
(* Claims about parse_time_to_seconds (under SpecTime). *)

NumColons(s) == Cardinality({i \in 1..Len(s) : s[i] = ":"})

\* some colon-delimited component is empty or holds a character that is no digit
HasNonNumericComponent(s) ==
    \/ s = <<>>
    \/ s[1] = ":"
    \/ s[Len(s)] = ":"
    \/ \E i \in 1..(Len(s) - 1) : s[i] = ":" /\ s[i + 1] = ":"
    \/ \E i \in 1..Len(s) : s[i] # ":" /\ s[i] \notin Digits

\* C2 (as claimed): parse_time_to_seconds fails with a format error for every
\* input whose number of colon-delimited components is not 1, 2 or 3 and for
\* every input with a non-numeric component; it returns no value for them.
C2_FormatErrorOnMalformed ==
    (call.done /\ (NumColons(call.time_str) + 1 \notin {1, 2, 3}
                   \/ HasNonNumericComponent(call.time_str)))
        => ~call.result.ok

\* the weighted sum of the numbers the components were written from
ExpectedSeconds(ps) ==
    CASE Len(ps) = 1 -> ps[1].num
      [] Len(ps) = 2 -> ps[1].num * 60 + ps[2].num
      [] Len(ps) = 3 -> ps[1].num * 3600 + ps[2].num * 60 + ps[3].num

\* C3: for every well-formed time string with integer components,
\* parse_time_to_seconds returns SS for one component, MM*60+SS for two and
\* HH*3600+MM*60+SS for three; parse("01:02:03") = 3723, parse("02:03") = 123,
\* parse("45") = 45.
C3_ParseScale ==
    call.done =>
        /\ (Len(call.parts) \in {1, 2, 3}
            /\ \A i \in 1..Len(call.parts) : call.parts[i].num >= 0)
               => (call.result.ok /\ call.result.val = ExpectedSeconds(call.parts))
        /\ call.time_str = <<"0", "1", ":", "0", "2", ":", "0", "3">>
               => (call.result.ok /\ call.result.val = 3723)
        /\ call.time_str = <<"0", "2", ":", "0", "3">>
               => (call.result.ok /\ call.result.val = 123)
        /\ call.time_str = <<"4", "5">>
               => (call.result.ok /\ call.result.val = 45)

C3_Witness ==
    /\ call.done
    /\ call.time_str = <<"0", "1", ":", "0", "2", ":", "0", "3">>
    /\ call.result = Returned(3723)

----------------------------------------------------------------------------
(* Claims about get_position_filter (under SpecPos). *)

\* an integer in decimal, written digit by digit
RECURSIVE NatText(_)
NatText(n) == IF n < 10 THEN DigitChar(n) ELSE NatText(n \div 10) \o DigitChar(n % 10)

IntText(n) == IF n < 0 THEN "-" \o NatText(-n) ELSE NatText(n)

TopRightText(ox, oy) == "main_w-overlay_w-" \o IntText(ox) \o ":" \o IntText(oy)

\* C9: get_position_filter maps each preset to its coordinate expression for
\* all integer offsets (top-left ox:oy; top-right main_w-overlay_w-ox:oy;
\* bottom-left ox:main_h-overlay_h-oy; bottom-right
\* main_w-overlay_w-ox:main_h-overlay_h-oy; center
\* (main_w-overlay_w)/2:(main_h-overlay_h)/2 whatever the offsets; custom
\* ox:oy), and every string that is no preset yields the top-right result.
C9_PositionMapping ==
    call.done =>
        LET p == call.position
            ox == call.offset_x
            oy == call.offset_y
            r == call.result
        IN  /\ p = "top-left" => r = IntText(ox) \o ":" \o IntText(oy)
            /\ p = "top-right" => r = TopRightText(ox, oy)
            /\ p = "bottom-left" =>
                   r = IntText(ox) \o ":main_h-overlay_h-" \o IntText(oy)
            /\ p = "bottom-right" =>
                   r = "main_w-overlay_w-" \o IntText(ox) \o ":main_h-overlay_h-"
                       \o IntText(oy)
            /\ p = "center" => r = "(main_w-overlay_w)/2:(main_h-overlay_h)/2"
            /\ p = "custom" => r = IntText(ox) \o ":" \o IntText(oy)
            /\ p \notin {"top-left", "top-right", "bottom-left", "bottom-right",
                         "center", "custom"} => r = TopRightText(ox, oy)
            /\ (p = "bottom-right" /\ ox = 10 /\ oy = 10)
                   => r = "main_w-overlay_w-10:main_h-overlay_h-10"

C9_Witness ==
    /\ call.done
    /\ call.position = "middle"
    /\ call.offset_x = 10
    /\ call.offset_y = -MaxOffset
    /\ call.result = TopRightText(10, -MaxOffset)

----------------------------------------------------------------------------
(* Claims about the runs of the two tools (under Spec). *)

Steps == {log[i] : i \in 1..Len(log)}

\* step a happened, and before every occurrence of step b
Before(a, b) ==
    \A i \in 1..Len(log) : log[i] = b => \E j \in 1..(i - 1) : log[j] = a

RunSucceeded == \E i \in 1..Len(procs) : procs[i].what = "run" /\ procs[i].rc = 0

\* C1 (as claimed): in overlay_image_on_video, whenever both a start time and
\* a duration are given, the final overlay segment carries exactly one enable
\* clause, between(t,start,start+duration), in place of the gte(t,start)
\* clause; the gte clause is there only when a start time is given without a
\* duration.  Start "00:00:10" and duration "00:00:30" give the single clause
\* between(t,10.0,40.0).
C1_SingleEnableClause ==
    graph.built =>
        LET st == args.start_time
            du == args.duration
            o == graph.overlay_options
        IN  /\ (Truthy(st) /\ Truthy(du)) => Len(o) = 1
            /\ (st = Some(T_00_00_10) /\ du = Some(T_00_00_30))
                   => o = <<"enable='between(t,10.0,40.0)'">>
            /\ (st = Some(T_00_00_10) /\ ~Truthy(du))
                   => o = <<"enable='gte(t,10.0)'">>
            /\ ~Truthy(st) => o = <<>>

\* C4: in every run of the overlay tool with an opacity outside [0.0, 1.0]
\* the run ends with exit code 1, no external process (neither the ffmpeg
\* probe nor the overlay invocation) has been started and no filter graph has
\* been built.
C4_OpacityRejectedFirst ==
    (tool = "overlay" /\ args.parsed /\ (args.opacity < 0 \/ args.opacity > 10))
        => /\ pc \in {"check_opacity", "exit"}
           /\ pc = "exit" => exitCode = 1
           /\ procs = <<>>
           /\ "check_ffmpeg" \notin Steps
           /\ "invoke" \notin Steps
           /\ graph = NoGraph

C4_Witness ==
    /\ tool = "overlay"
    /\ args.parsed
    /\ args.opacity = -5
    /\ pc = "exit"
    /\ exitCode = 1
    /\ log = <<"parse_args", "check_opacity">>

\* C5 (as claimed): in every run of either tool at most one external process
\* is started in total, and it is never started a second time.
C5_AtMostOneProcess == Len(procs) <= 1

\* C5 (amended): in every run of either tool at most two external processes
\* are started: the presence probe, at most once, and after it the
\* media-processing invocation, at most once and only if the probe ended with
\* status zero; neither is started a second time.
C5_ProbeThenOneInvocation ==
    /\ Len(procs) <= 2
    /\ Cardinality({i \in 1..Len(procs) : procs[i].what = "probe"}) <= 1
    /\ Cardinality({i \in 1..Len(procs) : procs[i].what = "run"}) <= 1
    /\ \A i \in 1..Len(procs) :
          procs[i].what = "run"
              => i = 2 /\ procs[1].what = "probe" /\ procs[1].rc = 0

C5_Witness ==
    /\ pc = "exit"
    /\ Len(procs) = 2
    /\ procs[1].what = "probe"
    /\ procs[2].what = "run"
    /\ procs[2].rc = 1
    /\ exitCode = 1

\* the steps the claim lists as the work of a run
InputChecks == {"check_opacity", "validate_files"}
LaterWork == {"validate_files", "find_mp4_files", "makedirs", "build_filter",
              "tempdir", "write_list", "invoke"}

\* C6 (as claimed): in both tools the presence probe happens before any other
\* work of the run (input validation, file discovery, output-directory
\* creation, list-file creation, media-processing invocation); when the
\* external tool is absent the run ends with exit code 1 and none of those
\* steps has happened.
C6_ProbeBeforeAnyWork ==
    /\ \A w \in InputChecks \cup LaterWork : Before("check_ffmpeg", w)
    /\ ffmpeg = "absent"
          => (pc = "exit" /\ exitCode = 1
              /\ Steps \cap (InputChecks \cup LaterWork) = {})

\* C6 (amended): in both tools the presence probe happens before file
\* validation, file discovery, output-directory creation, filter-graph and
\* list-file creation and the media-processing invocation; in the overlay
\* tool the opacity range check is the one validation that comes before the
\* probe.  When the probe finds the external tool absent the run ends with
\* exit code 1 and none of the steps that follow the probe has happened.
C6_ProbeBeforeLaterWork ==
    /\ \A w \in LaterWork : Before("check_ffmpeg", w)
    /\ tool = "overlay" => Before("check_opacity", "check_ffmpeg")
    /\ ffmpeg = "absent"
          => (pc = "exit" /\ exitCode = 1 /\ Steps \cap LaterWork = {})

C6_Witness ==
    /\ tool = "overlay"
    /\ ffmpeg = "absent"
    /\ pc = "exit"
    /\ exitCode = 1
    /\ log = <<"parse_args", "check_opacity", "check_ffmpeg">>

\* C7: in concatenate_videos the transient concat list file is created before
\* the external invocation starts and no longer exists once
\* concatenate_videos has returned, on every exit path: invocation status
\* zero, nonzero status, and an exception while writing the list or
\* launching the process.
C7_ListFileScoped ==
    /\ pc = "concat_running" => (listFile.tempdir /\ listFile.state = "written")
    /\ tool = "concat" => Before("write_list", "invoke")
    /\ (tool = "concat" /\ pc \in {"concat_returned", "exit"})
          => (~listFile.tempdir /\ listFile.state = "absent")

C7_Witness ==
    /\ pc = "concat_returned"
    /\ raised = "OSError"
    /\ log = <<"parse_args", "check_ffmpeg", "find_mp4_files", "makedirs",
               "tempdir", "write_list", "invoke">>
    /\ Len(procs) = 1
    /\ listFile = NoListFile

\* C8 (as claimed): each tool exits with code 0 exactly when its
\* media-processing invocation ran and returned exit status zero; every other
\* outcome ends the run with exit code 1.
C8_ExitZeroIffInvocationSucceeded ==
    pc = "exit" => (exitCode \in {0, 1} /\ (exitCode = 0 <=> RunSucceeded))

\* C8 (amended): once the argument parser has accepted the command line, each
\* tool exits with code 0 exactly when its media-processing invocation ran
\* and returned exit status zero, and every other outcome ends the run with
\* exit code 1; a command line the parser rejects ends the run with exit
\* code 2 and a help request with exit code 0, both before any other step.
C8_ExitCodes ==
    pc = "exit" =>
        IF args.parsed
        THEN exitCode \in {0, 1} /\ (exitCode = 0 <=> RunSucceeded)
        ELSE exitCode \in {0, 2} /\ procs = <<>> /\ log = <<"parse_args">>

C8_Witness ==
    /\ tool = "concat"
    /\ args.parsed
    /\ pc = "exit"
    /\ exitCode = 0
    /\ Len(procs) = 2
    /\ procs[2].what = "run"
    /\ procs[2].rc = 0

\* the name ends in .mp4, whatever the case of the letters, after a stem
HasMp4Ext(name) ==
    /\ Len(name) > 4
    /\ name[Len(name) - 3] = "."
    /\ name[Len(name) - 2] \in {"m", "M"}
    /\ name[Len(name) - 1] \in {"p", "P"}
    /\ name[Len(name)] = "4"

\* C10: find_mp4_files fails with a not-found error when the path does not
\* exist, with a not-a-directory error when it exists but is no directory,
\* and with an empty-result error (ValueError) whenever the directory holds
\* no regular file whose extension is .mp4 case-insensitively; in none of
\* these cases is a list returned.
C10_DiscoveryErrors ==
    "find_mp4_files" \in Steps =>
        /\ folder.kind = "missing" => mp4_files = Raised("FileNotFoundError")
        /\ folder.kind = "file" => mp4_files = Raised("NotADirectoryError")
        /\ (folder.kind = "dir"
            /\ \A i \in 1..Len(folder.entries) :
                  ~(folder.entries[i].kind = "file"
                    /\ HasMp4Ext(folder.entries[i].name)))
              => mp4_files = Raised("ValueError")
        /\ ~mp4_files.ok => (pc = "exit" /\ exitCode = 1 /\ raised = mp4_files.exc)

C10_Witness ==
    /\ "find_mp4_files" \in Steps
    /\ folder.kind = "dir"
    /\ Len(folder.entries) = 2
    /\ folder.entries[1].name = <<"c", ".", "t", "x", "t">>
    /\ folder.entries[2].kind = "dir"
    /\ mp4_files = Raised("ValueError")

----------------------------------------------------------------------------
(* Claims about the list find_mp4_files returns (under Spec). *)

\* a comes before b in code point order, or is a proper prefix of b
LexBefore(a, b) ==
    \E k \in 1..(Len(a) + 1) :
        /\ k <= Len(b)
        /\ \A j \in 1..(k - 1) : a[j] = b[j]
        /\ k = Len(a) + 1 \/ Ord(a[k]) < Ord(b[k])

\* the key of a is smaller than the key of b, for the --sort of the run
KeyBefore(a, b) ==
    CASE args.sort = "alphabetical" -> LexBefore(Lower(a.name), Lower(b.name))
      [] args.sort = "date_created" -> a.ctime < b.ctime
      [] args.sort = "date_modified" -> a.mtime < b.mtime

\* where the directory enumerated the entry
EnumIndex(e) == CHOOSE i \in 1..Len(folder.entries) : folder.entries[i] = e

\* C11 (as claimed): for every valid sort key and every directory, the list
\* returned by find_mp4_files is strictly ordered by the chosen key: every
\* adjacent pair has a strictly smaller key first (the case-folded file name
\* for alphabetical, the respective timestamp for the date keys).
C11_StrictlyOrdered ==
    mp4_files.ok =>
        \A i \in 1..(Len(mp4_files.val) - 1) :
            KeyBefore(mp4_files.val[i], mp4_files.val[i + 1])

\* C11 (amended): for every valid sort key and every directory, the list
\* returned by find_mp4_files holds each matching file once and is ordered by
\* the chosen key without being strictly ordered: no adjacent pair has a
\* greater key first, and files with equal keys (the same case-folded name,
\* the same timestamp) stay in the order the directory enumerated them.
C11_OrderedTiesKeepEnumeration ==
    mp4_files.ok =>
        LET l == mp4_files.val
        IN  /\ {l[i] : i \in 1..Len(l)}
                  = {folder.entries[i] : i \in {j \in 1..Len(folder.entries) :
                         folder.entries[j].kind = "file"
                         /\ HasMp4Ext(folder.entries[j].name)}}
            /\ \A i, j \in 1..Len(l) : l[i] = l[j] => i = j
            /\ \A i \in 1..(Len(l) - 1) :
                  /\ ~KeyBefore(l[i + 1], l[i])
                  /\ ~KeyBefore(l[i], l[i + 1]) => EnumIndex(l[i]) < EnumIndex(l[i + 1])

C11_Witness ==
    /\ mp4_files.ok
    /\ args.sort = "alphabetical"
    /\ folder.entries = <<[name |-> <<"B", ".", "m", "p", "4">>, kind |-> "file",
                           ctime |-> 2, mtime |-> 3],
                          [name |-> <<"a", ".", "M", "P", "4">>, kind |-> "file",
                           ctime |-> 1, mtime |-> 2],
                          [name |-> <<"b", ".", "m", "p", "4">>, kind |-> "file",
                           ctime |-> 2, mtime |-> 1]>>
    /\ mp4_files.val = <<folder.entries[2], folder.entries[1], folder.entries[3]>>

----------------------------------------------------------------------------
(* Claims about the filter graph overlay_image_on_video builds (under Spec). *)

\* the scale segment the claim expects for the --scale values of the runs
ExpectedScaleSegment ==
    CASE args.scale = Some(<<"5", "0", "%">>) -> "[1:v]scale=iw*0.5:ih*0.5[scaled]"
      [] args.scale = Some(<<"1", "0", "0", ":", "1", "0", "0">>) ->
            "[1:v]scale=100:100[scaled]"

\* the opacity segment reading tag src, for the opacities below 1.0 of the runs
ExpectedOpacitySegment(src) ==
    src \o "format=rgba,colorchannelmixer=aa="
    \o (CASE args.opacity = 0 -> "0.0" [] args.opacity = 7 -> "0.7")
    \o "[transparent]"

\* the tail of the overlay segment: position and enable clauses
OverlayTail ==
    "overlay=" \o get_position_filter(args.position, args.offset_x, args.offset_y)
    \o (IF graph.overlay_options = <<>> THEN ""
        ELSE ":" \o JoinStr(":", graph.overlay_options))

\* C12: for every combination of scale (absent/present) and opacity in
\* [0,1], the segments of the filter graph come in the order scale,
\* opacity, overlay; the scale segment exists iff a scale is given and reads
\* [1:v]; the opacity segment exists iff opacity < 1.0 and reads [scaled] if
\* a scale segment was emitted and [1:v] otherwise; the final overlay segment
\* reads [0:v] and the output tag of the last earlier segment ([transparent],
\* else [scaled], else [1:v]).  With this shape no segment reads a tag that
\* no earlier segment defined, and no defined tag is left unread.
C12_SegmentOrderAndTags ==
    graph.built =>
        LET hasScale == Truthy(args.scale)
            hasOpacity == args.opacity < 10
            scaleSeg == IF hasScale THEN <<ExpectedScaleSegment>> ELSE <<>>
            opacitySeg ==
                IF hasOpacity
                THEN <<ExpectedOpacitySegment(IF hasScale THEN "[scaled]"
                                              ELSE "[1:v]")>>
                ELSE <<>>
            lastTag == IF hasOpacity THEN "[transparent]"
                       ELSE IF hasScale THEN "[scaled]"
                       ELSE "[1:v]"
        IN  /\ graph.filter_parts
                  = scaleSeg \o opacitySeg \o <<"[0:v]" \o lastTag \o OverlayTail>>
            /\ graph.filter_complex = JoinStr(";", graph.filter_parts)

C12_Witness ==
    /\ graph.built
    /\ ~Truthy(args.scale)
    /\ args.opacity = 7
    /\ args.position = "center"
    /\ ~Truthy(args.start_time)
    /\ graph.filter_parts
          = <<"[1:v]format=rgba,colorchannelmixer=aa=0.7[transparent]",
              "[0:v][transparent]overlay=(main_w-overlay_w)/2:(main_h-overlay_h)/2">>

\* C13: when no start time is given, the filter graph and the command built
\* by overlay_image_on_video are the same whether or not a duration is given,
\* for any duration string, a malformed one included: no enable clause is
\* emitted and the duration is never parsed.
C13_DurationAloneHasNoEffect ==
    (graph.built /\ ~Truthy(args.start_time)) =>
        /\ graph.overlay_options = <<>>
        /\ \A d \in Durations :
              build_filter_graph([args EXCEPT !.duration = d],
                                 OverlayOutputPath(args)) = Returned(graph)

C13_Witness ==
    /\ graph.built
    /\ args.start_time = None
    /\ args.duration = Some(<<"x">>)
    /\ args.scale = None
    /\ args.opacity = 10
    /\ args.position = "top-right"
    /\ args.offset_x = 10
    /\ graph.filter_complex = "[0:v][1:v]overlay=main_w-overlay_w-10:10"

----------------------------------------------------------------------------
(* Claims about the concat list file (under Spec). *)

\* the folder's absolute path with forward slashes
FolderText ==
    CASE folder.path = <<"/", "d">> -> "/d"
      [] folder.path = <<"C", ":", "\\", "d">> -> "C:/d"

\* one character of a path as the list file shows it
ListChar(c) == IF c = "'" THEN "\\'" ELSE IF c = "\\" THEN "/" ELSE c

RECURSIVE ListText(_)
ListText(name) ==
    IF name = <<>> THEN ""
    ELSE ListText(SubSeq(name, 1, Len(name) - 1)) \o ListChar(name[Len(name)])

ExpectedLine(e) == "file '" \o FolderText \o "/" \o ListText(e.name) \o "'\n"

Names(es) == [i \in 1..Len(es) |-> es[i].name]

\* C14: create_concat_file writes exactly one line per input file, in the
\* order of the input list (so the alphabetically discovered files b.mp4,
\* a.mp4, c.mp4 are listed as a.mp4, b.mp4, c.mp4), each line of the form
\* file '<absolute path>' with backslashes replaced by forward slashes and
\* every single quote inside the path escaped.
C14_ConcatListLines ==
    /\ listFile.state = "written" =>
          /\ Len(listFile.lines) = Len(mp4_files.val)
          /\ \A i \in 1..Len(listFile.lines) :
                listFile.lines[i] = ExpectedLine(mp4_files.val[i])
          /\ (folder.path = <<"/", "d">> /\ args.sort = "alphabetical"
              /\ Names(folder.entries) = <<<<"b", ".", "m", "p", "4">>,
                                           <<"a", ".", "m", "p", "4">>,
                                           <<"c", ".", "m", "p", "4">>>>)
                => listFile.lines = <<"file '/d/a.mp4'\n", "file '/d/b.mp4'\n",
                                      "file '/d/c.mp4'\n">>
    /\ listFile.state = "partial" =>
          /\ Len(listFile.lines) < Len(mp4_files.val)
          /\ \A i \in 1..Len(listFile.lines) :
                listFile.lines[i] = ExpectedLine(mp4_files.val[i])

C14_Witness ==
    /\ listFile.state = "written"
    /\ args.sort = "alphabetical"
    /\ folder.sep = "\\"
    /\ Names(folder.entries) = <<<<"x", "'", ".", "m", "p", "4">>,
                                 <<"c", ".", "t", "x", "t">>,
                                 <<"a", ".", "m", "p", "4">>>>
    /\ listFile.lines = <<"file 'C:/d/a.mp4'\n", "file 'C:/d/x\\'.mp4'\n">>

====
